---- MODULE Spec2Model ----
(***************************************************************************)
(* Recipe manager: the Flask handlers of app.py over the two tables of     *)
(* models.py (recipe, ingredient), the serving scaling of                  *)
(* Ingredient.scaled and the shopping-list aggregation.                    *)
(*                                                                         *)
(* Texts that the code inspects character by character (ingredient names,  *)
(* numeric form fields) are sequences of code points; texts it only stores *)
(* and compares (title, unit) are strings.  Floats are exact rationals     *)
(* <<numerator, denominator>> in lowest terms.                             *)
(***************************************************************************)
EXTENDS Integers, Sequences, FiniteSets, TLC

VARIABLES recipe, ingredient, resp, edit, agg, wlock, versions, lastEdit

vars == <<recipe, ingredient, resp, edit, agg, wlock, versions, lastEdit>>

----------------------------------------------------------------------------
(* Bounds of the model. *)

\* at most this many rows in the recipe table
MaxRecipes == 2
\* ingredient primary keys are handed out up to this value
MaxIngId == 5
\* at most this many entries in the 'recipes' list of a shopping-list form
MaxSel == 3

----------------------------------------------------------------------------
(* Values. *)

\* SQL NULL / Python None in the Float column ingredient.amount
NoAmount == <<>>

\* SQL NULL / Python None in the String column ingredient.unit
NULL == "NULL"

RECURSIVE GCD(_, _)
GCD(a, b) == IF b = 0 THEN a ELSE GCD(b, a % b)

Abs(n) == IF n < 0 THEN -n ELSE n

\* the number n/d (d # 0) in lowest terms with a positive denominator
Rat(n, d) ==
    LET g == GCD(Abs(n), Abs(d))
        s == IF d < 0 THEN -1 ELSE 1
    IN  <<(s * n) \div g, (s * d) \div g>>

RatMul(x, y) == Rat(x[1] * y[1], x[2] * y[2])

RatAdd(x, y) == Rat(x[1] * y[2] + y[1] * x[2], x[2] * y[2])

Zero == Rat(0, 1)

One == Rat(1, 1)

\* Python truthiness of a number
TruthyNum(x) == x # NoAmount /\ x # Zero

\* Python round(x, 2): to the nearest hundredth, ties to the even hundredth
Round2(x) ==
    LET q == (x[1] * 100) \div x[2]
        r == (x[1] * 100) % x[2]
    IN  IF 2 * r < x[2] THEN Rat(q, 100)
        ELSE IF 2 * r > x[2] THEN Rat(q + 1, 100)
        ELSE IF q % 2 = 0 THEN Rat(q, 100) ELSE Rat(q + 1, 100)

----------------------------------------------------------------------------
(* Text, as sequences of code points. *)

IsDigit(c) == c >= 48 /\ c <= 57

IsSpace(c) == c \in {9, 10, 11, 12, 13, 32}

RECURSIVE LStrip(_)
LStrip(t) == IF t # <<>> /\ IsSpace(Head(t)) THEN LStrip(Tail(t)) ELSE t

RECURSIVE RStrip(_)
RStrip(t) ==
    IF t # <<>> /\ IsSpace(t[Len(t)]) THEN RStrip(SubSeq(t, 1, Len(t) - 1)) ELSE t

\* str.strip()
Strip(t) == RStrip(LStrip(t))

\* str.lower() on ASCII text
Lower(t) == [i \in 1..Len(t) |-> IF t[i] >= 65 /\ t[i] <= 90 THEN t[i] + 32 ELSE t[i]]

\* a < b for Python strings: lexicographic on code points
RECURSIVE TextLess(_, _)
TextLess(a, b) ==
    IF b = <<>> THEN FALSE
    ELSE IF a = <<>> THEN TRUE
    ELSE IF Head(a) # Head(b) THEN Head(a) < Head(b)
    ELSE TextLess(Tail(a), Tail(b))

RECURSIVE DigitsValue(_)
DigitsValue(t) ==
    IF t = <<>> THEN 0 ELSE 10 * DigitsValue(SubSeq(t, 1, Len(t) - 1)) + (t[Len(t)] - 48)

AllDigits(t) == t # <<>> /\ \A i \in 1..Len(t) : IsDigit(t[i])

\* int(s) succeeds: optional surrounding blanks, optional '-', digits
IntOk(s) ==
    LET t == Strip(s)
    IN  IF t # <<>> /\ Head(t) = 45 THEN AllDigits(Tail(t)) ELSE AllDigits(t)

\* int(s) where IntOk(s)
IntOf(s) ==
    LET t == Strip(s)
    IN  IF Head(t) = 45 THEN -DigitsValue(Tail(t)) ELSE DigitsValue(t)

Dots(t) == {i \in 1..Len(t) : t[i] = 46}

\* float(s) succeeds: digits with at most one decimal point
FloatOk(s) ==
    LET t == Strip(s)
    IN  /\ \A i \in 1..Len(t) : IsDigit(t[i]) \/ t[i] = 46
        /\ Cardinality(Dots(t)) <= 1
        /\ \E i \in 1..Len(t) : IsDigit(t[i])

RECURSIVE Pow10(_)
Pow10(k) == IF k = 0 THEN 1 ELSE 10 * Pow10(k - 1)

\* float(s) where FloatOk(s), as the exact decimal value
FloatOf(s) ==
    LET t == Strip(s)
    IN  IF Dots(t) = {} THEN Rat(DigitsValue(t), 1)
        ELSE LET p == CHOOSE i \in Dots(t) : TRUE
                 whole == SubSeq(t, 1, p - 1)
                 frac == SubSeq(t, p + 1, Len(t))
             IN  Rat(DigitsValue(whole \o frac), Pow10(Len(frac)))

----------------------------------------------------------------------------
(* The tables.  recipe: rows [id, title, servings]; ingredient: rows        *)
(* [id, recipe_id, name, amount, unit].                                     *)

Ids(rows) == {r.id : r \in rows}

SetMax(S) == CHOOSE m \in S : \A x \in S : x <= m

\* the INTEGER PRIMARY KEY the engine gives the next inserted row
NextId(rows) == IF rows = {} THEN 1 ELSE SetMax(Ids(rows)) + 1

RECURSIVE SortById(_)
SortById(rows) ==
    IF rows = {} THEN <<>>
    ELSE LET first == CHOOSE r \in rows : \A q \in rows : r.id <= q.id
         IN  <<first>> \o SortById(rows \ {first})

\* Recipe.query.get(id): the row, or none
Found(rows, id) == {r \in rows : r.id = id}

\* recipe.ingredients: the lazy load of the relationship, in primary-key order
LoadIngredients(ings, rid) == SortById({i \in ings : i.recipe_id = rid})

\* name, amount, unit of a row
Content(i) == [name |-> i.name, amount |-> i.amount, unit |-> i.unit]

Contents(seq) == [k \in 1..Len(seq) |-> Content(seq[k])]

----------------------------------------------------------------------------
(* Ingredient.scaled and the multiplier. *)

ZeroDivisionError == <<"ZeroDivisionError">>

\* Python's a / b on two ints
TrueDiv(a, b) == IF b = 0 THEN ZeroDivisionError ELSE Rat(a, b)

MultiplierUnguarded(desired, servings) == TrueDiv(desired, servings)

\* servings / recipe.servings if recipe.servings else 1
Multiplier(desired, servings) ==
    IF servings # 0 THEN TrueDiv(desired, servings) ELSE One

\* Ingredient.scaled(multiplier)
Scaled(ing, multiplier) ==
    [name |-> ing.name,
     amount |-> IF TruthyNum(ing.amount) THEN Round2(RatMul(ing.amount, multiplier))
                ELSE NoAmount,
     unit |-> ing.unit]

----------------------------------------------------------------------------
(* The create and edit forms: request.form as a function of its keys. *)

Has(form, key) == key \in DOMAIN form

Min(a, b) == IF a < b THEN a ELSE b

\* the rows zip(names, amounts, units) yields
ZipLen(form) == Min(Len(form.names), Min(Len(form.amounts), Len(form.units)))

\* the rows that pass `if name.strip()`
KeptRows(form) == {k \in 1..ZipLen(form) : Strip(form.names[k]) # <<>>}

\* no float(amount) of a kept row raises
RowsOk(form) ==
    \A k \in KeptRows(form) : form.amounts[k] # <<>> => FloatOk(form.amounts[k])

RECURSIVE BuildRows(_, _)
BuildRows(form, k) ==
    IF k > ZipLen(form) THEN <<>>
    ELSE IF k \in KeptRows(form)
         THEN <<[name |-> Strip(form.names[k]),
                 amount |-> IF form.amounts[k] # <<>> THEN FloatOf(form.amounts[k])
                            ELSE NoAmount,
                 unit |-> form.units[k]]>> \o BuildRows(form, k + 1)
         ELSE BuildRows(form, k + 1)

\* the Ingredient objects the loop of new_recipe / edit_recipe appends
FormIngredients(form) == BuildRows(form, 1)

\* int(request.form.get('servings', 4))
FormServings(form) == IF Has(form, "servings") THEN IntOf(form.servings) ELSE 4

\* how the request ends: 400 on request.form['title'] without the key, 500 on a
\* ValueError of int() or float(), else the redirect after the commit
FormStatus(form) ==
    IF ~Has(form, "title") THEN 400
    ELSE IF Has(form, "servings") /\ ~IntOk(form.servings) THEN 500
    ELSE IF ~RowsOk(form) THEN 500
    ELSE 302

\* the ingredient rows an INSERT of `items` for recipe rid adds to table ings
NewIngredientRows(ings, rid, items) ==
    {[id |-> NextId(ings) + k - 1, recipe_id |-> rid, name |-> items[k].name,
      amount |-> items[k].amount, unit |-> items[k].unit] : k \in 1..Len(items)}

----------------------------------------------------------------------------
(* shopping_list: the aggregation.  ingredient_totals is a dict, kept here  *)
(* as the sequence of its entries in insertion order, each with its key.    *)

\* ing.unit or ''
UnitOrEmpty(unit) == IF unit = NULL \/ unit = "" THEN "" ELSE unit

KeyCaseSensitive(ing) == <<ing.name, UnitOrEmpty(ing.unit)>>

\* key = (ing.name.lower(), ing.unit or '')
Key(ing) == <<Lower(ing.name), UnitOrEmpty(ing.unit)>>

\* (ing.amount or 0) * multiplier
ScaledAmount(ing, multiplier) ==
    RatMul(IF TruthyNum(ing.amount) THEN ing.amount ELSE Zero, multiplier)

AddIngredientOverwrite(totals, ing, multiplier, title) ==
    LET hit == {k \in 1..Len(totals) : totals[k].key = Key(ing)}
    IN  IF hit # {}
        THEN LET k == CHOOSE x \in hit : TRUE
             IN  [totals EXCEPT ![k] =
                     [@ EXCEPT !.name = ing.name,
                               !.amount = RatAdd(@, ScaledAmount(ing, multiplier)),
                               !.recipes = Append(@, title)]]
        ELSE Append(totals, [key |-> Key(ing), name |-> ing.name,
                             amount |-> ScaledAmount(ing, multiplier),
                             unit |-> UnitOrEmpty(ing.unit), recipes |-> <<title>>])

\* the body of `for ing in recipe.ingredients`
AddIngredient(totals, ing, multiplier, title) ==
    LET hit == {k \in 1..Len(totals) : totals[k].key = Key(ing)}
    IN  IF hit # {}
        THEN LET k == CHOOSE x \in hit : TRUE
             IN  [totals EXCEPT ![k] =
                     [@ EXCEPT !.amount = RatAdd(@, ScaledAmount(ing, multiplier)),
                               !.recipes = Append(@, title)]]
        ELSE Append(totals, [key |-> Key(ing), name |-> ing.name,
                             amount |-> ScaledAmount(ing, multiplier),
                             unit |-> UnitOrEmpty(ing.unit), recipes |-> <<title>>])

RECURSIVE AddIngredients(_, _, _, _)
AddIngredients(totals, ings, multiplier, title) ==
    IF ings = <<>> THEN totals
    ELSE AddIngredients(AddIngredient(totals, Head(ings), multiplier, title),
                        Tail(ings), multiplier, title)

\* the body of `if recipe:` for one selected recipe: its row, its loaded
\* ingredients and the servings asked for it
AddRecipe(totals, row, ings, desired) ==
    AddIngredients(totals, ings, Multiplier(desired, row.servings), row.title)

\* sorted(..., key=lambda x: x['name'].lower()): a stable sort
RECURSIVE InsertSorted(_, _)
InsertSorted(sorted, item) ==
    IF sorted = <<>> THEN <<item>>
    ELSE IF TextLess(Lower(item.name), Lower(sorted[Len(sorted)].name))
         THEN Append(InsertSorted(SubSeq(sorted, 1, Len(sorted) - 1), item),
                     sorted[Len(sorted)])
         ELSE Append(sorted, item)

SortNot(items) == items

RECURSIVE SortByName(_)
SortByName(items) ==
    IF items = <<>> THEN <<>>
    ELSE InsertSorted(SortByName(SubSeq(items, 1, Len(items) - 1)), items[Len(items)])

\* a shopping item as the template gets it
Item(entry) ==
    [name |-> entry.name, amount |-> entry.amount, unit |-> entry.unit,
     recipes |-> entry.recipes]

ShoppingItems(totals) ==
    LET sorted == SortByName(totals) IN [k \in 1..Len(sorted) |-> Item(sorted[k])]

\* selected_ids = [int(id) for id in request.form.getlist('recipes')]
SelectedOk(form) == \A k \in 1..Len(form.recipes) : IntOk(form.recipes[k])

SelectedIds(form) == [k \in 1..Len(form.recipes) |-> IntOf(form.recipes[k])]

\* int(request.form.get(f'servings_{recipe_id}', 4)); form.servings maps the
\* recipe ids that have a servings_<id> field to its text
DesiredOk(form, id) == id \in DOMAIN form.servings => IntOk(form.servings[id])

Desired(form, id) ==
    IF id \in DOMAIN form.servings THEN IntOf(form.servings[id]) ELSE 4

RECURSIVE AggregateUntilMissing(_, _, _, _, _, _)
AggregateUntilMissing(totals, rows, ings, ids, form, k) ==
    IF k > Len(ids) THEN totals
    ELSE LET hit == Found(rows, ids[k])
         IN  IF hit = {} THEN totals
             ELSE LET row == CHOOSE r \in hit : TRUE
                  IN  AggregateUntilMissing(
                          AddRecipe(totals, row, LoadIngredients(ings, row.id),
                                    Desired(form, ids[k])),
                          rows, ings, ids, form, k + 1)

\* the loop `for recipe_id in selected_ids` from position k, over the tables
RECURSIVE Aggregate(_, _, _, _, _, _)
Aggregate(totals, rows, ings, ids, form, k) ==
    IF k > Len(ids) THEN totals
    ELSE LET hit == Found(rows, ids[k])
         IN  IF hit = {} THEN Aggregate(totals, rows, ings, ids, form, k + 1)
             ELSE LET row == CHOOSE r \in hit : TRUE
                  IN  Aggregate(AddRecipe(totals, row, LoadIngredients(ings, row.id),
                                          Desired(form, ids[k])),
                                rows, ings, ids, form, k + 1)

\* how the shopping-list POST ends: 500 on a ValueError of int(), else the page
ShoppingStatus(form) ==
    IF ~SelectedOk(form) THEN 500
    ELSE IF \E k \in 1..Len(form.recipes) : ~DesiredOk(form, IntOf(form.recipes[k]))
         THEN 500
    ELSE 200

----------------------------------------------------------------------------
(* The requests the model sends. *)

\* " Flour", "flour", "Flour", "Zest", "  ", "Salt"
T_Flour_sp == <<32, 70, 108, 111, 117, 114>>
T_flour == <<102, 108, 111, 117, 114>>
T_Flour == <<70, 108, 111, 117, 114>>
T_Zest == <<90, 101, 115, 116>>
T_blank == <<32, 32>>
T_Salt == <<83, 97, 108, 116>>
\* "1.5", "0", "2", "1", "4", "7", "x"
T_1_5 == <<49, 46, 53>>
T_0 == <<48>>
T_2 == <<50>>
T_1 == <<49>>
T_7 == <<55>>
T_x == <<120>>

\* one kept row and one row with a blank name
FormPancakes ==
    [title |-> "Pancakes", servings |-> T_2,
     names |-> <<T_Flour_sp, T_blank>>, amounts |-> <<T_1_5, T_1>>,
     units |-> <<"cup", "cup">>]

\* no servings field; an empty amount and a zero amount
FormBread ==
    [title |-> "Bread",
     names |-> <<T_flour, T_Flour>>, amounts |-> <<<<>>, T_0>>,
     units |-> <<"cup", "g">>]

\* an empty title, servings 0, more units than names
FormUntitled ==
    [title |-> "", servings |-> T_0,
     names |-> <<T_Zest>>, amounts |-> <<T_2>>, units |-> <<"", "g">>]

\* no title field
FormNoTitle ==
    [servings |-> T_2, names |-> <<T_Salt>>, amounts |-> <<T_1>>, units |-> <<"g">>]

\* only a row with a blank name: a recipe without ingredients
FormWater ==
    [title |-> "Water", servings |-> T_1,
     names |-> <<T_blank>>, amounts |-> <<T_1>>, units |-> <<"L">>]

\* an amount float() rejects
FormBadAmount ==
    [title |-> "Soup", servings |-> T_2,
     names |-> <<T_Salt>>, amounts |-> <<T_x>>, units |-> <<"g">>]

Forms == {FormPancakes, FormBread, FormUntitled, FormWater, FormNoTitle, FormBadAmount}

\* the forms the create and edit requests of Spec submit
WriteForms == {FormBread, FormUntitled, FormWater, FormNoTitle, FormBadAmount}

\* the ids a URL or a form names: those the table can hold and one it cannot
UrlIds == 1..(MaxRecipes + 1)

\* request.args of view_recipe
ViewArgs == {<<>>, [servings |-> T_1], [servings |-> T_x]}

SelTexts == {T_1, T_2, T_7}

RECURSIVE SeqsUpTo(_, _)
SeqsUpTo(S, n) ==
    IF n = 0 THEN {<<>>}
    ELSE LET shorter == SeqsUpTo(S, n - 1)
         IN  shorter \cup {Append(q, x) : q \in {r \in shorter : Len(r) = n - 1}, x \in S}

DesiredTexts == {T_1, T_x}

\* the shopping-list forms: a 'recipes' list and servings_<id> fields for
\* some of the listed ids
ShoppingForms ==
    UNION {LET ids == {IntOf(sel[k]) : k \in 1..Len(sel)}
           IN  {[recipes |-> sel, servings |-> f] :
                   f \in UNION {[D -> DesiredTexts] : D \in SUBSET ids}}
           : sel \in SeqsUpTo(SelTexts, MaxSel)}

----------------------------------------------------------------------------
(* State.  recipe, ingredient: the committed tables.  resp: what the last   *)
(* finished request did and returned.  edit, agg, wlock: requests in        *)
(* flight, used when handlers interleave.  versions, lastEdit: history.     *)

Idle == [pc |-> "idle"]

Editors == {"e1", "e2"}

NoResp == [kind |-> "none"]

Init ==
    /\ recipe = {}
    /\ ingredient = {}
    /\ resp = NoResp
    /\ edit = [e \in Editors |-> Idle]
    /\ agg = Idle
    /\ wlock = "free"
    /\ versions = {}
    /\ lastEdit = NoResp

inflight == <<edit, agg, wlock, versions, lastEdit>>

----------------------------------------------------------------------------
(* The handlers, each as one request served alone. *)

\* db.session.add(recipe): the INSERT into recipe
InsertRecipe(rows, form) ==
    rows \cup {[id |-> NextId(rows), title |-> form.title,
                servings |-> FormServings(form)]}

\* new_recipe, POST
NewRecipe(form) ==
    LET status == FormStatus(form)
        items == FormIngredients(form)
        rid == NextId(recipe)
    IN  /\ IF status = 302
           THEN /\ Cardinality(recipe) < MaxRecipes
                /\ NextId(ingredient) + Len(items) - 1 <= MaxIngId
                /\ recipe' = InsertRecipe(recipe, form)
                /\ ingredient' = ingredient \cup NewIngredientRows(ingredient, rid, items)
           ELSE UNCHANGED <<recipe, ingredient>>
        /\ resp' = [kind |-> "new", status |-> status, form |-> form, id |-> rid]
        /\ UNCHANGED inflight

\* the UPDATE of the recipe row the flush emits
UpdateRecipe(rows, id, form) ==
    {IF r.id = id
     THEN [id |-> id, title |-> form.title, servings |-> FormServings(form)]
     ELSE r : r \in rows}

\* the flush of recipe.ingredients.clear() and the appends: the INSERTs of the
\* new rows, then the DELETEs of the rows that were loaded (delete-orphan)
ReplaceIngredients(ings, rid, old, items) ==
    (ings \cup NewIngredientRows(ings, rid, items)) \ {i \in ings : i.id \in old}

\* edit_recipe, POST
EditRecipe(id, form) ==
    LET hit == Found(recipe, id)
        status == IF hit = {} THEN 404 ELSE FormStatus(form)
        items == FormIngredients(form)
        old == Ids({i \in ingredient : i.recipe_id = id})
    IN  /\ IF status = 302
           THEN /\ NextId(ingredient) + Len(items) - 1 <= MaxIngId
                /\ recipe' = UpdateRecipe(recipe, id, form)
                /\ ingredient' = ReplaceIngredients(ingredient, id, old, items)
           ELSE UNCHANGED <<recipe, ingredient>>
        /\ resp' = [kind |-> "edit", status |-> status, form |-> form, id |-> id]
        /\ UNCHANGED inflight

DeleteRecipeOnly(ings, rid) == ings

\* cascade='all, delete-orphan': the DELETE of the recipe's ingredient rows
DeleteOwned(ings, rid) == {i \in ings : i.recipe_id # rid}

\* delete_recipe
DeleteRecipe(id) ==
    LET hit == Found(recipe, id)
    IN  /\ IF hit # {}
           THEN /\ recipe' = recipe \ hit
                /\ ingredient' = DeleteOwned(ingredient, id)
           ELSE UNCHANGED <<recipe, ingredient>>
        /\ resp' = [kind |-> "delete", status |-> IF hit = {} THEN 404 ELSE 302,
                    id |-> id]
        /\ UNCHANGED inflight

\* request.args.get('servings', recipe.servings, type=int)
ViewServings(args, row) ==
    IF Has(args, "servings") /\ IntOk(args.servings) THEN IntOf(args.servings)
    ELSE row.servings

\* view_recipe
ViewRecipe(id, args) ==
    LET hit == Found(recipe, id)
    IN  /\ IF hit = {}
           THEN resp' = [kind |-> "view", status |-> 404, id |-> id]
           ELSE LET row == CHOOSE r \in hit : TRUE
                    servings == ViewServings(args, row)
                    multiplier == Multiplier(servings, row.servings)
                    ings == LoadIngredients(ingredient, id)
                IN  IF multiplier = ZeroDivisionError
                    THEN resp' = [kind |-> "view", status |-> 500, id |-> id]
                    ELSE resp' =
                           [kind |-> "view", status |-> 200, id |-> id, args |-> args,
                            recipe |-> row, servings |-> servings,
                            multiplier |-> multiplier,
                            ingredients |-> Contents(ings),
                            scaled_ingredients |->
                                [k \in 1..Len(ings) |-> Scaled(ings[k], multiplier)]]
        /\ UNCHANGED <<recipe, ingredient>>
        /\ UNCHANGED inflight

\* some selected recipe makes the multiplier's division raise
AggregateRaises(rows, ids, form) ==
    \E k \in 1..Len(ids) : \E r \in Found(rows, ids[k]) :
        Multiplier(Desired(form, ids[k]), r.servings) = ZeroDivisionError

\* shopping_list, POST
ShoppingList(form) ==
    /\ IF ShoppingStatus(form) # 200
       THEN resp' = [kind |-> "shopping", status |-> 500, form |-> form]
       ELSE LET ids == SelectedIds(form)
            IN  IF AggregateRaises(recipe, ids, form)
                THEN resp' = [kind |-> "shopping", status |-> 500, form |-> form]
                ELSE resp' =
                       [kind |-> "shopping", status |-> 200, form |-> form,
                        selected_ids |-> ids,
                        multipliers |->
                            [k \in 1..Len(ids) |->
                                IF Found(recipe, ids[k]) = {} THEN <<>>
                                ELSE Multiplier(Desired(form, ids[k]),
                                        (CHOOSE r \in Found(recipe, ids[k]) : TRUE).servings)],
                        shopping_items |->
                            ShoppingItems(Aggregate(<<>>, recipe, ingredient, ids, form, 1))]
    /\ UNCHANGED <<recipe, ingredient>>
    /\ UNCHANGED inflight

\* the requests that write, each served alone, from the empty database
Next ==
    \/ \E form \in WriteForms : NewRecipe(form)
    \/ \E id \in UrlIds, form \in WriteForms : EditRecipe(id, form)
    \/ \E id \in UrlIds : DeleteRecipe(id)

Spec == Init /\ [][Next]_vars

----------------------------------------------------------------------------
(* The requests that only read (view_recipe, shopping_list) are functions   *)
(* of the tables and the request: each is applied once to tables that a     *)
(* run of new_recipe requests leaves.                                       *)

AcceptedForms == {form \in Forms : FormStatus(form) = 302}

\* the tables after new_recipe has served the forms of `forms` in order
RECURSIVE TablesAfter(_)
TablesAfter(forms) ==
    IF forms = <<>> THEN [recipe |-> {}, ingredient |-> {}]
    ELSE LET before == TablesAfter(SubSeq(forms, 1, Len(forms) - 1))
             form == forms[Len(forms)]
         IN  [recipe |-> InsertRecipe(before.recipe, form),
              ingredient |->
                  before.ingredient \cup
                  NewIngredientRows(before.ingredient, NextId(before.recipe),
                                    FormIngredients(form))]

ReadInit ==
    /\ \E forms \in SeqsUpTo(AcceptedForms, MaxRecipes) :
          /\ recipe = TablesAfter(forms).recipe
          /\ ingredient = TablesAfter(forms).ingredient
    /\ resp = NoResp
    /\ edit = [e \in Editors |-> Idle]
    /\ agg = Idle
    /\ wlock = "free"
    /\ versions = {}
    /\ lastEdit = NoResp

ReadNext ==
    \/ \E id \in UrlIds, args \in ViewArgs : resp = NoResp /\ ViewRecipe(id, args)
    \/ \E form \in ShoppingForms : resp = NoResp /\ ShoppingList(form)

ReadSpec == ReadInit /\ [][ReadNext]_vars

----------------------------------------------------------------------------
(* Handlers that interleave.  Each request runs in its own session on its   *)
(* own connection.  A SELECT reads the committed tables.  The first UPDATE  *)
(* a session flushes opens its write transaction, which it holds to its     *)
(* commit or rollback; a commit is atomic; one writer at a time (wlock).    *)
(* Of the responses only the rendered shopping list is kept in resp.        *)

\* "Egg"
T_Egg == <<69, 103, 103>>

\* the title and servings of FormPancakes with other ingredients
FormPancakesEgg ==
    [title |-> "Pancakes", servings |-> T_2,
     names |-> <<T_Egg>>, amounts |-> <<T_2>>, units |-> <<"">>]

ConcForms == {FormPancakesEgg, FormBread}

\* the tables the interleaved requests start from: one new_recipe was served
ConcCreated == <<FormPancakes>>

\* the stored recipe and an id that is not stored
ConcIds == {1, 2}

ConcShoppingForms == {[recipes |-> <<T_2, T_1>>, servings |-> <<>>]}

\* a recipe as one entity: its row with its ingredients
Entity(rows, ings, id) ==
    LET row == CHOOSE r \in rows : r.id = id
    IN  [id |-> id, title |-> row.title, servings |-> row.servings,
         ingredients |-> Contents(LoadIngredients(ings, id))]

Entities(rows, ings) == {Entity(rows, ings, id) : id \in Ids(rows)}

ConcInit ==
    /\ recipe = TablesAfter(ConcCreated).recipe
    /\ ingredient = TablesAfter(ConcCreated).ingredient
    /\ resp = NoResp
    /\ edit = [e \in Editors |-> Idle]
    /\ agg = Idle
    /\ wlock = "free"
    /\ versions = Entities(recipe, ingredient)
    /\ lastEdit = NoResp

\* edit_recipe line 106: Recipe.query.get_or_404(id)
EditLoad(e, id, form) ==
    /\ edit[e].pc = "idle"
    /\ LET hit == Found(recipe, id)
       IN  IF hit = {}
           THEN \* 404
                UNCHANGED edit
           ELSE edit' = [edit EXCEPT ![e] =
                            [pc |-> "loaded", id |-> id, form |-> form,
                             row |-> CHOOSE r \in hit : TRUE]]
    /\ UNCHANGED <<recipe, ingredient, resp, agg, wlock, versions, lastEdit>>

\* the attribute assignments change the loaded object: the autoflush ahead of
\* the lazy load has an UPDATE to emit
Dirty(row, form) == row.title # form.title \/ row.servings # FormServings(form)

\* edit_recipe lines 109-118: the assignments, then recipe.ingredients.clear(),
\* whose lazy load autoflushes first
EditClear(e) ==
    /\ edit[e].pc = "loaded"
    /\ LET s == edit[e]
           early == IF ~Has(s.form, "title") THEN 400
                    ELSE IF Has(s.form, "servings") /\ ~IntOk(s.form.servings) THEN 500
                    ELSE 302
       IN  IF early # 302
           THEN \* 400 or 500
                /\ edit' = [edit EXCEPT ![e] = Idle]
                /\ UNCHANGED wlock
           ELSE IF ~Dirty(s.row, s.form)
           THEN /\ edit' = [edit EXCEPT ![e] =
                               [pc |-> "cleared", id |-> s.id, form |-> s.form,
                                row |-> s.row, dirty |-> FALSE,
                                old |-> Ids({i \in ingredient : i.recipe_id = s.id})]]
                /\ UNCHANGED wlock
           ELSE /\ wlock = "free"
                /\ IF Found(recipe, s.id) = {}
                   THEN \* the UPDATE matches no row: StaleDataError, 500
                        /\ edit' = [edit EXCEPT ![e] = Idle]
                        /\ UNCHANGED wlock
                   ELSE /\ edit' = [edit EXCEPT ![e] =
                                       [pc |-> "cleared", id |-> s.id, form |-> s.form,
                                        row |-> s.row, dirty |-> TRUE,
                                        old |-> Ids({i \in ingredient : i.recipe_id = s.id})]]
                        /\ wlock' = e
    /\ UNCHANGED <<recipe, ingredient, resp, agg, versions, lastEdit>>

\* edit_recipe lines 120-135: the appends and db.session.commit()
EditCommit(e) ==
    /\ edit[e].pc = "cleared"
    /\ LET s == edit[e]
           items == FormIngredients(s.form)
       IN  IF ~RowsOk(s.form)
           THEN \* float() raises: 500, the session is rolled back
                /\ wlock' = IF wlock = e THEN "free" ELSE wlock
                /\ UNCHANGED <<recipe, ingredient, versions, lastEdit>>
           ELSE /\ wlock = IF s.dirty THEN e ELSE "free"
                /\ NextId(ingredient) + Len(items) - 1 <= MaxIngId
                /\ recipe' = IF s.dirty THEN UpdateRecipe(recipe, s.id, s.form) ELSE recipe
                /\ ingredient' = ReplaceIngredients(ingredient, s.id, s.old, items)
                /\ wlock' = "free"
                /\ versions' = versions \cup Entities(recipe', ingredient')
                /\ lastEdit' = [kind |-> "edit", id |-> s.id, form |-> s.form]
    /\ edit' = [edit EXCEPT ![e] = Idle]
    /\ UNCHANGED <<resp, agg>>

\* delete_recipe, in one step: its reads and its commit
ConcDelete(id) ==
    /\ wlock = "free"
    /\ Found(recipe, id) # {}
    /\ recipe' = recipe \ Found(recipe, id)
    /\ ingredient' = DeleteOwned(ingredient, id)
    /\ lastEdit' = IF lastEdit.kind = "edit" /\ lastEdit.id = id THEN NoResp ELSE lastEdit
    /\ UNCHANGED <<resp, edit, agg, wlock, versions>>

\* shopping_list lines 157-169: Recipe.query.order_by(Recipe.title).all()
\* puts every recipe row into the session's identity map
AggList(form) ==
    /\ agg.pc = "idle"
    /\ IF ShoppingStatus(form) # 200
       THEN \* 500
            UNCHANGED agg
       ELSE agg' = [pc |-> "get", form |-> form, ids |-> SelectedIds(form), k |-> 1,
                    seen |-> recipe, loaded |-> {}, totals |-> <<>>, used |-> {}]
    /\ UNCHANGED <<recipe, ingredient, resp, edit, wlock, versions, lastEdit>>

\* line 172: Recipe.query.get(recipe_id) answers from the identity map when
\* the row is in it, else with a SELECT
AggGet ==
    /\ agg.pc = "get"
    /\ agg.k <= Len(agg.ids)
    /\ LET id == agg.ids[agg.k]
           known == Found(agg.seen, id)
           hit == IF known # {} THEN known ELSE Found(recipe, id)
       IN  IF hit = {}
           THEN agg' = [agg EXCEPT !.k = @ + 1]
           ELSE agg' = [agg EXCEPT !.pc = "load", !.seen = @ \cup hit]
    /\ UNCHANGED <<recipe, ingredient, resp, edit, wlock, versions, lastEdit>>

\* lines 174-189: recipe.ingredients is loaded on first use and kept on the
\* object; the loop over it adds to ingredient_totals
AggLoad ==
    /\ agg.pc = "load"
    /\ LET id == agg.ids[agg.k]
           row == CHOOSE r \in agg.seen : r.id = id
           kept == {l \in agg.loaded : l.id = id}
           ings == IF kept # {} THEN (CHOOSE l \in kept : TRUE).ingredients
                   ELSE LoadIngredients(ingredient, id)
       IN  agg' = [agg EXCEPT
                      !.pc = "get", !.k = @ + 1,
                      !.loaded = @ \cup {[id |-> id, ingredients |-> ings]},
                      !.totals = AddRecipe(@, row, ings, Desired(agg.form, id)),
                      !.used = @ \cup {[id |-> id, title |-> row.title,
                                        servings |-> row.servings,
                                        ingredients |-> Contents(ings)]}]
    /\ UNCHANGED <<recipe, ingredient, resp, edit, wlock, versions, lastEdit>>

\* lines 192-197: the sort and the page
AggRender ==
    /\ agg.pc = "get"
    /\ agg.k > Len(agg.ids)
    /\ resp' = [kind |-> "shopping", status |-> 200, form |-> agg.form,
                selected_ids |-> agg.ids,
                shopping_items |-> ShoppingItems(agg.totals)]
    /\ agg' = Idle
    /\ UNCHANGED <<recipe, ingredient, edit, wlock, versions, lastEdit>>

ConcNext ==
    \/ \E e \in Editors, id \in ConcIds, form \in ConcForms : EditLoad(e, id, form)
    \/ \E e \in Editors : EditClear(e)
    \/ \E e \in Editors : EditCommit(e)
    \/ \E id \in ConcIds : ConcDelete(id)
    \/ \E form \in ConcShoppingForms : AggList(form)
    \/ AggGet
    \/ AggLoad
    \/ AggRender

ConcSpec == ConcInit /\ [][ConcNext]_vars

----------------------------------------------------------------------------
(* What the claims speak of. *)

\* a finished shopping-list POST that rendered the list
Shopped == resp.kind = "shopping" /\ resp.status = 200

\* a finished view_recipe that rendered the recipe
Viewed == resp.kind = "view" /\ resp.status = 200

\* positions of the selection whose id is a stored recipe
Resolved(ids) == {k \in 1..Len(ids) : Found(recipe, ids[k]) # {}}

RowOf(id) == CHOOSE r \in recipe : r.id = id

\* the multiplier the specification asks for
ExpectedMultiplier(desired, servings) == IF servings = 0 THEN Rat(1, 1) ELSE Rat(desired, servings)

\* the servings a shopping-list form asks for recipe id: its field, else 4
ExpectedDesired(form, id) ==
    IF id \in DOMAIN form.servings THEN IntOf(form.servings[id]) ELSE 4

\* every ingredient occurrence of the resolved selections from position k on,
\* in processing order: the ingredient, its recipe's title, the term it adds
RECURSIVE Occurrences(_, _, _)
Occurrences(ids, form, k) ==
    IF k > Len(ids) THEN <<>>
    ELSE IF k \notin Resolved(ids) THEN Occurrences(ids, form, k + 1)
    ELSE LET row == RowOf(ids[k])
             mine == SortById({i \in ingredient : i.recipe_id = row.id})
             m == ExpectedMultiplier(ExpectedDesired(form, ids[k]), row.servings)
         IN  [j \in 1..Len(mine) |->
                 [name |-> mine[j].name,
                  unit |-> IF mine[j].unit = NULL THEN "" ELSE mine[j].unit,
                  title |-> row.title,
                  term |-> IF mine[j].amount = NoAmount THEN Rat(0, 1)
                           ELSE RatMul(mine[j].amount, m)]]
             \o Occurrences(ids, form, k + 1)

\* the dedup key of an occurrence or of a shopping item
KeyOf(x) == <<Lower(x.name), x.unit>>

RECURSIVE Under(_, _)
Under(occ, key) ==
    IF occ = <<>> THEN <<>>
    ELSE IF KeyOf(Head(occ)) = key THEN <<Head(occ)>> \o Under(Tail(occ), key)
    ELSE Under(Tail(occ), key)

RECURSIVE SumTerms(_)
SumTerms(occ) == IF occ = <<>> THEN Rat(0, 1) ELSE RatAdd(Head(occ).term, SumTerms(Tail(occ)))

Range(f) == {f[k] : k \in DOMAIN f}

----------------------------------------------------------------------------
\* C3: the shopping list has exactly one item per distinct dedup key
\* (lowercased name, unit with null read as '') among the ingredients of the
\* resolved selected recipes, so its length is the number of distinct keys.
C3_OneItemPerKey ==
    Shopped =>
        LET occ == Occurrences(resp.selected_ids, resp.form, 1)
            keys == {KeyOf(occ[j]) : j \in 1..Len(occ)}
            items == resp.shopping_items
        IN  /\ Len(items) = Cardinality(keys)
            /\ \A key \in keys :
                  Cardinality({k \in 1..Len(items) : KeyOf(items[k]) = key}) = 1

\* two occurrences that differ only in the case of the name were merged, and
\* the same name under another unit stayed a separate item
C3_Witness ==
    /\ Shopped
    /\ LET occ == Occurrences(resp.selected_ids, resp.form, 1)
       IN  /\ \E a, b \in 1..Len(occ) :
                 occ[a].name # occ[b].name /\ KeyOf(occ[a]) = KeyOf(occ[b])
           /\ \E a, b \in 1..Len(occ) :
                 occ[a].name = occ[b].name /\ occ[a].unit # occ[b].unit
           /\ Len(resp.shopping_items) < Len(occ)

\* C4: each item carries the name (original casing) and unit of the first
\* ingredient processed under its key, the sum over the occurrences under the
\* key of (amount, or 0 when absent) times the recipe's multiplier, and one
\* recipe title per occurrence in processing order (a null unit shows as '').
C4_ItemContent ==
    Shopped =>
        LET occ == Occurrences(resp.selected_ids, resp.form, 1)
            items == resp.shopping_items
        IN  \A k \in 1..Len(items) :
               LET mine == Under(occ, KeyOf(items[k]))
               IN  /\ mine # <<>>
                   /\ items[k].name = mine[1].name
                   /\ items[k].unit = mine[1].unit
                   /\ items[k].amount = SumTerms(mine)
                   /\ items[k].recipes = [j \in 1..Len(mine) |-> mine[j].title]

\* an item merged from two recipes whose first occurrence is cased unlike a
\* later one, one of the occurrences having no amount
C4_Witness ==
    /\ Shopped
    /\ LET occ == Occurrences(resp.selected_ids, resp.form, 1)
       IN  \E k \in 1..Len(resp.shopping_items) :
              LET mine == Under(occ, KeyOf(resp.shopping_items[k]))
              IN  /\ Len(mine) >= 2
                  /\ mine[1].name # mine[2].name
                  /\ mine[1].title # mine[2].title
                  /\ resp.shopping_items[k].amount # Rat(0, 1)
                  /\ \E i \in ingredient :
                        i.amount = NoAmount /\ KeyOf([name |-> i.name, unit |-> i.unit])
                                               = KeyOf(resp.shopping_items[k])

\* the list shopping_list renders for the same form with its 'recipes'
\* list replaced by ids
ListFor(ids, form) ==
    ShoppingItems(Aggregate(<<>>, recipe, ingredient, ids, form, 1))

\* the orderings of a selection
Orderings(ids) ==
    {[k \in 1..Len(ids) |-> ids[p[k]]] :
        p \in {q \in [1..Len(ids) -> 1..Len(ids)] : Range(q) = 1..Len(ids)}}

\* how often title occurs in a recipes list
Count(titles, title) == Cardinality({k \in 1..Len(titles) : titles[k] = title})

\* C1 as stated: every ordering of the same selections yields the identical
\* output sequence, item by item.
C1_SameSequence ==
    Shopped => \A ids \in Orderings(resp.selected_ids) :
                  ListFor(ids, resp.form) = resp.shopping_items

\* C1, the part selection order cannot change: every ordering of the same
\* selections yields a list of the same length with the same lowercased names position by position, and under
\* every dedup key an item with the same unit, the same total and the same
\* recipe titles up to their order.
C1_SameUpToOrder ==
    Shopped =>
        \A ids \in Orderings(resp.selected_ids) :
           LET mine == resp.shopping_items
               other == ListFor(ids, resp.form)
           IN  /\ Len(other) = Len(mine)
               /\ \A k \in 1..Len(mine) : Lower(other[k].name) = Lower(mine[k].name)
               /\ \A k \in 1..Len(mine) : \E j \in 1..Len(other) :
                     /\ KeyOf(other[j]) = KeyOf(mine[k])
                     /\ other[j].unit = mine[k].unit
                     /\ other[j].amount = mine[k].amount
                     /\ \A title \in Range(mine[k].recipes) \cup Range(other[j].recipes) :
                           Count(other[j].recipes, title) = Count(mine[k].recipes, title)

\* a list of at least two items, one of them merged from two selected
\* recipes, that another ordering of the selection renders differently
C1_Witness ==
    /\ Shopped
    /\ Len(resp.shopping_items) >= 2
    /\ \E k \in 1..Len(resp.shopping_items) :
          Cardinality(Range(resp.shopping_items[k].recipes)) >= 2
    /\ \E ids \in Orderings(resp.selected_ids) :
          ListFor(ids, resp.form) # resp.shopping_items

\* the selection without the ids that are not stored
RECURSIVE StoredOnly(_)
StoredOnly(ids) ==
    IF ids = <<>> THEN <<>>
    ELSE IF Found(recipe, Head(ids)) = {} THEN StoredOnly(Tail(ids))
    ELSE <<Head(ids)>> \o StoredOnly(Tail(ids))

\* every text of the form that int() is applied to parses
FormParses(form) ==
    /\ \A k \in 1..Len(form.recipes) : IntOk(form.recipes[k])
    /\ \A k \in 1..Len(form.recipes) :
          IntOf(form.recipes[k]) \in DOMAIN form.servings
              => IntOk(form.servings[IntOf(form.recipes[k])])

\* C5: a selected id that is not stored is skipped without an error: the
\* list is the one of the same selections with that id removed; an empty
\* selection and a selection of recipes without ingredients yield an empty list.
C5_MissingSkipped ==
    resp.kind = "shopping" =>
        /\ FormParses(resp.form) => resp.status = 200
        /\ Shopped =>
              /\ resp.shopping_items = ListFor(StoredOnly(resp.selected_ids), resp.form)
              /\ \A k \in 1..Len(resp.selected_ids) :
                    Found(recipe, resp.selected_ids[k]) = {} =>
                        resp.shopping_items =
                            ListFor([j \in 1..(Len(resp.selected_ids) - 1) |->
                                        IF j < k THEN resp.selected_ids[j]
                                        ELSE resp.selected_ids[j + 1]], resp.form)
              /\ (\A k \in Resolved(resp.selected_ids) :
                     \A i \in ingredient : i.recipe_id # resp.selected_ids[k])
                 => resp.shopping_items = <<>>

\* an id that is not stored, selected ahead of a stored recipe whose
\* ingredients are on the list
C5_Witness ==
    /\ Shopped
    /\ resp.shopping_items # <<>>
    /\ \E k \in 1..Len(resp.selected_ids) :
          /\ Found(recipe, resp.selected_ids[k]) = {}
          /\ \E j \in Resolved(resp.selected_ids) : j > k

\* C8: view_recipe and shopping_list take the multiplier as 1 when the
\* stored servings is 0 and as desired / stored otherwise, and never fail on
\* a division by zero; desired defaults to the stored servings in
\* view_recipe and to 4 per selection in shopping_list.
C8_Multiplier ==
    /\ resp.kind = "view" =>
          /\ resp.status # 500
          /\ Viewed =>
                LET desired == IF "servings" \in DOMAIN resp.args /\ IntOk(resp.args.servings)
                               THEN IntOf(resp.args.servings) ELSE resp.recipe.servings
                IN  /\ resp.servings = desired
                    /\ resp.multiplier = ExpectedMultiplier(desired, resp.recipe.servings)
    /\ resp.kind = "shopping" =>
          /\ FormParses(resp.form) => resp.status = 200
          /\ Shopped =>
                \A k \in Resolved(resp.selected_ids) :
                   resp.multipliers[k] =
                       ExpectedMultiplier(ExpectedDesired(resp.form, resp.selected_ids[k]),
                                          RowOf(resp.selected_ids[k]).servings)

\* a recipe stored with servings 0 was viewed with servings asked for, or
\* was aggregated, under the multiplier 1
C8_Witness ==
    \/ /\ Viewed
       /\ resp.recipe.servings = 0
       /\ "servings" \in DOMAIN resp.args
       /\ resp.servings # 0
       /\ resp.multiplier = Rat(1, 1)
       /\ resp.scaled_ingredients # <<>>
    \/ /\ Shopped
       /\ \E k \in Resolved(resp.selected_ids) :
             /\ RowOf(resp.selected_ids[k]).servings = 0
             /\ resp.multipliers[k] = Rat(1, 1)

\* C2: scaled(M) returns round(A * M, 2) for every ingredient whose amount A
\* is present, 0 included, an absent amount only when the ingredient's
\* amount is absent, and name and unit unchanged.
C2_ScaledAmount ==
    Viewed =>
        \A k \in 1..Len(resp.ingredients) :
           /\ resp.scaled_ingredients[k].name = resp.ingredients[k].name
           /\ resp.scaled_ingredients[k].unit = resp.ingredients[k].unit
           /\ resp.scaled_ingredients[k].amount =
                 IF resp.ingredients[k].amount = NoAmount THEN NoAmount
                 ELSE Round2(RatMul(resp.ingredients[k].amount, resp.multiplier))

\* C6: after any sequence of create, edit and delete requests every stored
\* ingredient references a recipe that still exists: a delete leaves no
\* ingredient of the deleted recipe, and an edit leaves the recipe with
\* exactly the ingredients submitted with it, none of those it had before.
C6_NoOrphans ==
    /\ \A i \in ingredient : \E r \in recipe : r.id = i.recipe_id
    /\ resp.kind = "delete" /\ resp.status = 302 =>
          \A i \in ingredient : i.recipe_id # resp.id
    /\ resp.kind = "edit" /\ resp.status = 302 =>
          Contents(SortById({i \in ingredient : i.recipe_id = resp.id}))
              = FormIngredients(resp.form)

\* a delete or an edit that succeeded and removed ingredient rows while rows
\* of another recipe stayed
C6_Witness ==
    /\ resp.kind \in {"delete", "edit"}
    /\ resp.status = 302
    /\ \E i \in ingredient : i.recipe_id # resp.id
    /\ \E n \in 1..MaxIngId : n \notin Ids(ingredient) /\ n < NextId(ingredient)

\* C7: a create or edit request whose title is missing or empty is rejected
\* before persistence, so no stored recipe has an empty title.
C7_TitleRequired ==
    /\ \A r \in recipe : r.title # ""
    /\ resp.kind \in {"new", "edit"} /\ resp.status = 302 =>
          "title" \in DOMAIN resp.form /\ resp.form.title # ""

\* C9: when two edits of the same recipe interleave, the stored recipe has
\* the scalar fields and exactly the ingredient set submitted by the edit
\* that committed last, no ingredient of the other edit remaining.
C9_LastWriterWins ==
    lastEdit.kind = "edit" /\ Found(recipe, lastEdit.id) # {} =>
        /\ RowOf(lastEdit.id).title = lastEdit.form.title
        /\ RowOf(lastEdit.id).servings = FormServings(lastEdit.form)
        /\ Contents(SortById({i \in ingredient : i.recipe_id = lastEdit.id}))
              = FormIngredients(lastEdit.form)

\* C10: an aggregation that runs beside an edit of a selected recipe uses,
\* for that recipe, its servings, title and ingredients all from before or
\* all from after the edit: some committed state of the recipe as a whole.
C10_NoTornRead ==
    agg.pc # "idle" =>
        \A u \in agg.used : Found(recipe, u.id) # {} => u \in versions

====
